---- MODULE Spec2Model ----
(***************************************************************************)
(* Data-access handlers of the clinic back office: the medicine queries    *)
(* (server/src/handlers/get_medicines.ts), createPatient                   *)
(* (server/src/handlers/create_patient.ts) and the transaction queries     *)
(* exercised by server/src/tests/get_transactions.test.ts.                 *)
(*                                                                         *)
(* Time is counted in units of 1/UnitsPerDay of a day since the epoch, in  *)
(* UTC.  A Date is an instant; a stored DATE column ('YYYY-MM-DD') is a    *)
(* day number.  The server's zone is tz units east of UTC.                 *)
(***************************************************************************)
EXTENDS Integers, Sequences, FiniteSets, TLC

VARIABLES
    medicinesTable,     \* rows of the medicines table
    patientsTable,      \* rows of the patients table
    transactionsTable,  \* rows of the transactions table
    now,                \* the instant new Date() returns
    tz,                 \* the server's offset from UTC, in time units
    call                \* the handler call the caller is looking at

vars == <<medicinesTable, patientsTable, transactionsTable, now, tz, call>>

----------------------------------------------------------------------------
(* Bounds of the model *)

UnitsPerDay == 2
MaxNow == 3
MaxTz == 1
MaxRows == 2
MaxStock == 1
MaxDay == 2

\* an optional field: absent, or present with a value
None == <<>>
Some(v) == <<v>>
IsSome(o) == Len(o) = 1
Val(o) == o[1]

TzOffsets == (0 - MaxTz)..MaxTz
MedicineNames == {<<"a">>, <<"A", "b">>}
Queries == {<<>>, <<"a">>, <<"B">>, <<"_", "b">>}
ExpiryDates == {None} \cup {Some(d) : d \in 1..MaxDay}
DbErrors == {"ECONNREFUSED"}

MedicineRows(i) ==
    [id : {i}, name : MedicineNames, stock_quantity : 0..MaxStock,
     minimum_stock : 0..MaxStock, expiry_date : ExpiryDates]

MedicineSearchInputs ==
    [query : {None} \cup {Some(q) : q \in Queries},
     low_stock_only : {None, Some(FALSE), Some(TRUE)},
     expired_only : {None, Some(FALSE), Some(TRUE)},
     limit : {None}, offset : {None}]

----------------------------------------------------------------------------
(* Dates *)

\* date.toISOString().split('T')[0]: the UTC calendar day of an instant
toISODate(t) == t \div UnitsPerDay

\* new Date('YYYY-MM-DD'): midnight UTC of that day
newDate(d) == d * UnitsPerDay

\* the calendar day a Date shows on the server (getFullYear/getMonth/getDate)
localDay(t) == (t + tz) \div UnitsPerDay

\* date.setHours(0, 0, 0, 0): local midnight of the instant's local day
localMidnight(t) == localDay(t) * UnitsPerDay - tz

----------------------------------------------------------------------------
(* The query operators of the persistence client *)

lower(c) == CASE c = "A" -> "a" [] c = "B" -> "b" [] OTHER -> c

\* SQL LIKE on lower-cased operands: % matches any run, _ any one character
RECURSIVE like(_, _)
like(s, p) ==
    IF p = <<>> THEN s = <<>>
    ELSE IF Head(p) = "%"
         THEN like(s, Tail(p)) \/ (s # <<>> /\ like(Tail(s), p))
    ELSE IF Head(p) = "_"
         THEN s # <<>> /\ like(Tail(s), Tail(p))
    ELSE s # <<>> /\ lower(Head(s)) = lower(Head(p)) /\ like(Tail(s), Tail(p))

ilike(s, p) == like(s, p)

\* the low-stock comparison without its boundary
holdsStrict(c, r) ==
    CASE c.kind = "ilike" -> ilike(r.name, c.pattern)
      [] c.kind = "low_stock" -> r.stock_quantity < r.minimum_stock
      [] c.kind = "expired" -> IsSome(r.expiry_date) /\ Val(r.expiry_date) <= c.today
      [] c.kind = "eq_id" -> r.id = c.id
      [] c.kind = "eq_patient_id" -> r.patient_id = c.patient_id
      [] c.kind = "eq_payment_status" -> r.payment_status = c.payment_status
      [] c.kind = "gte_created_at" -> r.created_at >= c.date
      [] c.kind = "lte_created_at" -> r.created_at <= c.date

\* one pushed condition, evaluated on a row; a NULL operand makes it not true
holds(c, r) ==
    CASE c.kind = "ilike" -> ilike(r.name, c.pattern)
      [] c.kind = "low_stock" -> r.stock_quantity <= r.minimum_stock
      [] c.kind = "expired" -> IsSome(r.expiry_date) /\ Val(r.expiry_date) <= c.today
      [] c.kind = "eq_id" -> r.id = c.id
      [] c.kind = "eq_patient_id" -> r.patient_id = c.patient_id
      [] c.kind = "eq_payment_status" -> r.payment_status = c.payment_status
      [] c.kind = "gte_created_at" -> r.created_at >= c.date
      [] c.kind = "lte_created_at" -> r.created_at <= c.date

\* the conditions joined with OR in place of AND
whereAny(rows, conditions) ==
    IF Len(conditions) = 0 THEN rows
    ELSE {r \in rows : \E i \in 1..Len(conditions) : holds(conditions[i], r)}

\* where(and(...conditions)); no where clause when there is no condition
where(rows, conditions) ==
    IF Len(conditions) = 0 THEN rows
    ELSE {r \in rows : \A i \in 1..Len(conditions) : holds(conditions[i], r)}

\* character codes, for the ordering of names
code(c) == CASE c = "A" -> 65 [] c = "B" -> 66 [] c = "_" -> 95
             [] c = "a" -> 97 [] c = "b" -> 98

RECURSIVE nameCmp(_, _)
\* -1, 0, 1 as a comes before, equals, comes after b
nameCmp(a, b) ==
    IF a = <<>> THEN (IF b = <<>> THEN 0 ELSE 0 - 1)
    ELSE IF b = <<>> THEN 1
    ELSE IF code(Head(a)) < code(Head(b)) THEN 0 - 1
    ELSE IF code(Head(a)) > code(Head(b)) THEN 1
    ELSE nameCmp(Tail(a), Tail(b))

\* orderBy(medicinesTable.name)
byName(a, b) == nameCmp(a.name, b.name) <= 0

\* minimum_stock ascending in place of descending
byMinimumStockAscName(a, b) ==
    \/ a.minimum_stock < b.minimum_stock
    \/ a.minimum_stock = b.minimum_stock /\ nameCmp(a.name, b.name) <= 0

\* orderBy(desc(minimum_stock), name)
byMinimumStockDescName(a, b) ==
    \/ a.minimum_stock > b.minimum_stock
    \/ a.minimum_stock = b.minimum_stock /\ nameCmp(a.name, b.name) <= 0

\* orderBy(expiry_date, name); NULLs sort last in ascending order
byExpiryName(a, b) ==
    IF IsSome(a.expiry_date) /\ IsSome(b.expiry_date)
    THEN \/ Val(a.expiry_date) < Val(b.expiry_date)
         \/ Val(a.expiry_date) = Val(b.expiry_date) /\ nameCmp(a.name, b.name) <= 0
    ELSE IF IsSome(a.expiry_date) THEN TRUE
    ELSE IF IsSome(b.expiry_date) THEN FALSE
    ELSE nameCmp(a.name, b.name) <= 0

\* the sequences listing each row of a set once
Listings(rows) ==
    {s \in [1..Cardinality(rows) -> rows] :
        \A i, j \in 1..Cardinality(rows) : i # j => s[i] # s[j]}

\* the ORDER BY clauses the handlers use
inOrder(order, a, b) ==
    CASE order = "name" -> byName(a, b)
      [] order = "minimum_stock desc, name" -> byMinimumStockDescName(a, b)
      [] order = "expiry_date, name" -> byExpiryName(a, b)
      [] order = "created_at desc" -> a.created_at >= b.created_at
      [] order = "none" -> TRUE

\* LIMIT n OFFSET m of an ordered answer: skip m rows, then keep n
page(s, lim, off) ==
    LET from == IF IsSome(off) THEN Val(off) ELSE 0
        rest == SubSeq(s, from + 1, Len(s))
    IN  IF IsSome(lim) /\ Val(lim) < Len(rest) THEN SubSeq(rest, 1, Val(lim)) ELSE rest

\* query.execute() when the store answers: the answers it may give; rows
\* that tie on the sort keys come in any order
execute(q) ==
    {page(s, q.limit, q.offset) :
        s \in {l \in Listings(where(q.from, q.conditions)) :
                 \A i \in 1..(Len(l) - 1) : inOrder(q.order, l[i], l[i + 1])}}

----------------------------------------------------------------------------
(* What the caller sees of a call *)

Idle ==
    [op |-> "none", input |-> None, fault |-> None, outcome |-> "none",
     result |-> <<>>, thrown |-> None, log |-> <<>>, queries |-> 0]

\* return value;
returns(op, input, fault, value) ==
    [op |-> op, input |-> input, fault |-> fault, outcome |-> "return",
     result |-> value, thrown |-> None, log |-> <<>>, queries |-> 1]

\* a catch block that logs the error and returns an empty result
catchAndReturnEmpty(op, input, message, error) ==
    [op |-> op, input |-> input, fault |-> Some(error), outcome |-> "return",
     result |-> <<>>, thrown |-> None,
     log |-> <<[message |-> message, error |-> error]>>, queries |-> 1]

\* catch (error) { console.error(message, error); throw error; }
catch(op, input, message, error) ==
    [op |-> op, input |-> input, fault |-> Some(error), outcome |-> "throw",
     result |-> <<>>, thrown |-> Some(error),
     log |-> <<[message |-> message, error |-> error]>>, queries |-> 1]

\* JavaScript truthiness of an optional string, number, boolean
truthyString(o) == IsSome(o) /\ Val(o) # <<>>
truthyNumber(o) == IsSome(o) /\ Val(o) # 0
truthyBoolean(o) == IsSome(o) /\ Val(o)

----------------------------------------------------------------------------
(* server/src/handlers/get_medicines.ts *)

\* results.map: expiry_date becomes a Date, or stays null
mapMedicine(m) ==
    [m EXCEPT !.expiry_date = IF IsSome(@) THEN Some(newDate(Val(@))) ELSE None]

mapMedicines(results) == [i \in 1..Len(results) |-> mapMedicine(results[i])]

\* the conditions getMedicines pushes, in order
queryCondition(input) ==
    IF truthyString(input.query)
    THEN <<[kind |-> "ilike", pattern |-> <<"%">> \o Val(input.query) \o <<"%">>]>>
    ELSE <<>>

lowStockCondition(input) ==
    IF truthyBoolean(input.low_stock_only) THEN <<[kind |-> "low_stock"]>> ELSE <<>>

expiredCondition(input) ==
    IF truthyBoolean(input.expired_only)
    THEN <<[kind |-> "expired", today |-> toISODate(now)]>>
    ELSE <<>>

medicineConditions(input) ==
    IF IsSome(input)
    THEN queryCondition(Val(input)) \o lowStockCondition(Val(input))
             \o expiredCondition(Val(input))
    ELSE <<>>

medicinesQuery(input) ==
    [from |-> medicinesTable, conditions |-> medicineConditions(input), order |-> "name",
     limit |-> IF IsSome(input) /\ truthyNumber(Val(input).limit)
               THEN Val(input).limit ELSE None,
     offset |-> IF IsSome(input) /\ truthyNumber(Val(input).offset)
                THEN Val(input).offset ELSE None]

getMedicines(input, fault) ==
    /\ call.op = "none"
    /\ IF IsSome(fault)
       THEN call' = catch("getMedicines", input, "Failed to get medicines:", Val(fault))
       ELSE \E results \in execute(medicinesQuery(input)) :
                call' = returns("getMedicines", input, fault, mapMedicines(results))
    /\ UNCHANGED <<medicinesTable, patientsTable, transactionsTable, now, tz>>

\* a lookup that treats an empty answer as an error
getMedicineByIdOrThrow(id, fault) ==
    /\ call.op = "none"
    /\ IF IsSome(fault)
       THEN call' = catch("getMedicineById", id, "Failed to get medicine by ID:", Val(fault))
       ELSE \E results \in execute([from |-> medicinesTable,
                                    conditions |-> <<[kind |-> "eq_id", id |-> id]>>,
                                    order |-> "none", limit |-> None, offset |-> None]) :
                call' = IF Len(results) = 0
                        THEN [catch("getMedicineById", id, "Failed to get medicine by ID:",
                                    "not found") EXCEPT !.fault = None]
                        ELSE returns("getMedicineById", id, fault,
                                     Some(mapMedicine(results[1])))
    /\ UNCHANGED <<medicinesTable, patientsTable, transactionsTable, now, tz>>

getMedicineById(id, fault) ==
    /\ call.op = "none"
    /\ IF IsSome(fault)
       THEN call' = catch("getMedicineById", id, "Failed to get medicine by ID:", Val(fault))
       ELSE \E results \in execute([from |-> medicinesTable,
                                    conditions |-> <<[kind |-> "eq_id", id |-> id]>>,
                                    order |-> "none", limit |-> None, offset |-> None]) :
                call' = returns("getMedicineById", id, fault,
                                IF Len(results) = 0 THEN None
                                ELSE Some(mapMedicine(results[1])))
    /\ UNCHANGED <<medicinesTable, patientsTable, transactionsTable, now, tz>>

getLowStockMedicines(fault) ==
    /\ call.op = "none"
    /\ IF IsSome(fault)
       THEN call' = catch("getLowStockMedicines", None,
                          "Failed to get low stock medicines:", Val(fault))
       ELSE \E results \in execute([from |-> medicinesTable,
                                    conditions |-> <<[kind |-> "low_stock"]>>,
                                    order |-> "minimum_stock desc, name",
                                    limit |-> None, offset |-> None]) :
                call' = returns("getLowStockMedicines", None, fault, mapMedicines(results))
    /\ UNCHANGED <<medicinesTable, patientsTable, transactionsTable, now, tz>>

getExpiredMedicines(fault) ==
    /\ call.op = "none"
    /\ IF IsSome(fault)
       THEN call' = catch("getExpiredMedicines", None,
                          "Failed to get expired medicines:", Val(fault))
       ELSE \E results \in execute([from |-> medicinesTable,
                                    conditions |-> <<[kind |-> "expired",
                                                      today |-> toISODate(now)]>>,
                                    order |-> "expiry_date, name",
                                    limit |-> None, offset |-> None]) :
                call' = returns("getExpiredMedicines", None, fault, mapMedicines(results))
    /\ UNCHANGED <<medicinesTable, patientsTable, transactionsTable, now, tz>>

----------------------------------------------------------------------------
(* server/src/handlers/create_patient.ts *)

rowCount ==
    Cardinality(medicinesTable) + Cardinality(patientsTable)
        + Cardinality(transactionsTable)

\* an insert that stays in the table when the statement fails afterwards
createPatientKeepsRowOnFailure(input, fault) ==
    /\ call.op = "none"
    /\ rowCount < MaxRows
    /\ patientsTable' = patientsTable \cup
           {[id |-> Cardinality(patientsTable) + 1, name |-> input.name,
             date_of_birth |-> toISODate(input.date_of_birth)]}
    /\ call' = IF IsSome(fault)
               THEN catch("createPatient", input, "Patient creation failed:", Val(fault))
               ELSE returns("createPatient", input, fault,
                            [id |-> Cardinality(patientsTable) + 1, name |-> input.name,
                             date_of_birth |-> newDate(toISODate(input.date_of_birth))])
    /\ UNCHANGED <<medicinesTable, transactionsTable, now, tz>>

createPatient(input, fault) ==
    /\ call.op = "none"
    /\ IF IsSome(fault)
       THEN /\ call' = catch("createPatient", input, "Patient creation failed:", Val(fault))
            /\ UNCHANGED patientsTable
       ELSE LET dateString == toISODate(input.date_of_birth)
                patient == [id |-> Cardinality(patientsTable) + 1, name |-> input.name,
                            date_of_birth |-> dateString]
            IN  /\ rowCount < MaxRows
                /\ patientsTable' = patientsTable \cup {patient}
                /\ call' = returns("createPatient", input, fault,
                                   [patient EXCEPT !.date_of_birth = newDate(@)])
    /\ UNCHANGED <<medicinesTable, transactionsTable, now, tz>>

----------------------------------------------------------------------------
(* The transaction handlers (server/src/handlers/get_transactions.ts), as  *)
(* the specification describes them and the tests call them                *)

\* createTestTransaction: db.insert(transactionsTable); created_at defaults to now
insertTransaction(patient_id, payment_status) ==
    /\ call.op = "none"
    /\ rowCount < MaxRows
    /\ transactionsTable' = transactionsTable \cup
           {[id |-> Cardinality(transactionsTable) + 1, patient_id |-> patient_id,
             payment_status |-> payment_status, created_at |-> now]}
    /\ UNCHANGED <<medicinesTable, patientsTable, now, tz, call>>

\* yesterday.setDate(yesterday.getDate() - 1)
yesterday == now - UnitsPerDay

\* today.setHours(0, 0, 0, 0); tomorrow.setDate(tomorrow.getDate() + 1)
tomorrow == localMidnight(now) + UnitsPerDay

\* db.update(transactionsTable).set({ created_at }).where(eq(id))
updateCreatedAt(id, created_at) ==
    /\ call.op = "none"
    /\ \E t \in transactionsTable : t.id = id /\ t.created_at # created_at
    /\ transactionsTable' =
           {IF t.id = id THEN [t EXCEPT !.created_at = created_at] ELSE t
              : t \in transactionsTable}
    /\ UNCHANGED <<medicinesTable, patientsTable, now, tz, call>>

transactionConditions(input) ==
    IF IsSome(input)
    THEN (IF IsSome(Val(input).patient_id)
          THEN <<[kind |-> "eq_patient_id", patient_id |-> Val(Val(input).patient_id)]>>
          ELSE <<>>)
         \o (IF IsSome(Val(input).payment_status)
             THEN <<[kind |-> "eq_payment_status",
                     payment_status |-> Val(Val(input).payment_status)]>>
             ELSE <<>>)
         \o (IF IsSome(Val(input).start_date)
             THEN <<[kind |-> "gte_created_at", date |-> Val(Val(input).start_date)]>>
             ELSE <<>>)
         \o (IF IsSome(Val(input).end_date)
             THEN <<[kind |-> "lte_created_at", date |-> Val(Val(input).end_date)]>>
             ELSE <<>>)
    ELSE <<>>

\* a query that drops the offset
transactionsQueryWithoutOffset(input) ==
    [from |-> transactionsTable, conditions |-> transactionConditions(input),
     order |-> "created_at desc",
     limit |-> IF IsSome(input) THEN Val(input).limit ELSE None,
     offset |-> None]

transactionsQuery(input) ==
    [from |-> transactionsTable, conditions |-> transactionConditions(input),
     order |-> "created_at desc",
     limit |-> IF IsSome(input) THEN Val(input).limit ELSE None,
     offset |-> IF IsSome(input) THEN Val(input).offset ELSE None]

getTransactions(input, fault) ==
    /\ call.op = "none"
    /\ IF IsSome(fault)
       THEN call' = catch("getTransactions", input, "Failed to get transactions:", Val(fault))
       ELSE \E results \in execute(transactionsQuery(input)) :
                call' = returns("getTransactions", input, fault, results)
    /\ UNCHANGED <<medicinesTable, patientsTable, transactionsTable, now, tz>>

getTransactionById(id, fault) ==
    /\ call.op = "none"
    /\ IF IsSome(fault)
       THEN call' = catch("getTransactionById", id, "Failed to get transaction by ID:",
                          Val(fault))
       ELSE \E results \in execute([from |-> transactionsTable,
                                    conditions |-> <<[kind |-> "eq_id", id |-> id]>>,
                                    order |-> "none", limit |-> None, offset |-> None]) :
                call' = returns("getTransactionById", id, fault,
                                IF Len(results) = 0 THEN None ELSE Some(results[1]))
    /\ UNCHANGED <<medicinesTable, patientsTable, transactionsTable, now, tz>>

\* the day taken from midnight UTC in place of local midnight
todayInputFromUtcMidnight ==
    Some([patient_id |-> None, payment_status |-> None,
          start_date |-> Some(newDate(toISODate(now))), end_date |-> None,
          limit |-> None, offset |-> None])

\* start = local midnight of the current day, no end
todayInput ==
    Some([patient_id |-> None, payment_status |-> None,
          start_date |-> Some(localMidnight(now)), end_date |-> None,
          limit |-> None, offset |-> None])

getTodayTransactions(fault) ==
    /\ call.op = "none"
    /\ IF IsSome(fault)
       THEN call' = catch("getTodayTransactions", None,
                          "Failed to get today's transactions:", Val(fault))
       ELSE \E results \in execute(transactionsQuery(todayInput)) :
                call' = returns("getTodayTransactions", None, fault, results)
    /\ UNCHANGED <<medicinesTable, patientsTable, transactionsTable, now, tz>>

getPendingTransactions(fault) ==
    /\ call.op = "none"
    /\ IF IsSome(fault)
       THEN call' = catch("getPendingTransactions", None,
                          "Failed to get pending transactions:", Val(fault))
       ELSE \E results \in execute([from |-> transactionsTable,
                                    conditions |-> <<[kind |-> "eq_payment_status",
                                                      payment_status |-> "pending"]>>,
                                    order |-> "created_at desc",
                                    limit |-> None, offset |-> None]) :
                call' = returns("getPendingTransactions", None, fault, results)
    /\ UNCHANGED <<medicinesTable, patientsTable, transactionsTable, now, tz>>

----------------------------------------------------------------------------
(* The environment of the handlers *)

\* The caller looks at the outcome of one call at a time: the tables and the
\* clock move between calls, and the caller takes the outcome before the next.
settle ==
    /\ call.op # "none"
    /\ call' = Idle
    /\ UNCHANGED <<medicinesTable, patientsTable, transactionsTable, now, tz>>

\* time passes
tick ==
    /\ call.op = "none"
    /\ now < MaxNow
    /\ now' = now + 1
    /\ UNCHANGED <<medicinesTable, patientsTable, transactionsTable, tz, call>>

Faults == {None} \cup {Some(e) : e \in DbErrors}

\* the tables of up to n medicines, ids unique
RECURSIVE MedicineStoresUpTo(_)
MedicineStoresUpTo(n) ==
    IF n = 0 THEN {{}}
    ELSE LET smaller == MedicineStoresUpTo(n - 1)
         IN  smaller \cup
                 UNION {{s \cup {r} : r \in UNION {MedicineRows(i) :
                                                    i \in (1..MaxRows) \ {m.id : m \in s}}}
                        : s \in smaller}

MedicineStores == MedicineStoresUpTo(MaxRows)

CreatePatientInputs == [name : {"Budi"}, date_of_birth : 0..MaxNow]

TransactionFilterInputs ==
    [patient_id : {None, Some(1)}, payment_status : {None, Some("pending")},
     start_date : {None, Some(MaxNow)}, end_date : {None, Some(UnitsPerDay)},
     limit : {None}, offset : {None}]

TransactionPageInputs ==
    [patient_id : {None}, payment_status : {None, Some("pending")},
     start_date : {None}, end_date : {None},
     limit : {None} \cup {Some(n) : n \in 0..MaxRows},
     offset : {None} \cup {Some(n) : n \in 0..MaxRows}]

PatientIds == 1..2
PaymentStatuses == {"pending", "paid", "cancelled"}

\* the medicine handlers and createPatient, on any medicines table
Init ==
    /\ medicinesTable \in MedicineStores
    /\ patientsTable = {}
    /\ transactionsTable = {}
    /\ now = UnitsPerDay
    /\ tz \in TzOffsets
    /\ call = Idle

Next ==
    \/ \E input \in {None} \cup {Some(i) : i \in MedicineSearchInputs}, fault \in Faults :
           getMedicines(input, fault)
    \/ \E id \in 1..(MaxRows + 1), fault \in Faults : getMedicineById(id, fault)
    \/ \E fault \in Faults : getLowStockMedicines(fault)
    \/ \E fault \in Faults : getExpiredMedicines(fault)
    \/ \E input \in CreatePatientInputs, fault \in Faults : createPatient(input, fault)
    \/ settle
    \/ tick

Spec == Init /\ [][Next]_vars

\* the transaction handlers, on the tables the tests build from empty
InitTransactions ==
    /\ medicinesTable = {}
    /\ patientsTable = {}
    /\ transactionsTable = {}
    /\ now = UnitsPerDay
    /\ tz \in TzOffsets
    /\ call = Idle

NextTransactions ==
    \/ \E p \in PatientIds, s \in PaymentStatuses : insertTransaction(p, s)
    \/ \E id \in 1..MaxRows, t \in {yesterday, tomorrow} : updateCreatedAt(id, t)
    \/ \E input \in {None} \cup {Some(i) : i \in TransactionPageInputs}, fault \in Faults :
           getTransactions(input, fault)
    \/ \E id \in 1..(MaxRows + 1), fault \in Faults : getTransactionById(id, fault)
    \/ \E fault \in Faults : getTodayTransactions(fault)
    \/ \E fault \in Faults : getPendingTransactions(fault)
    \/ settle
    \/ tick

SpecTransactions == InitTransactions /\ [][NextTransactions]_vars

\* the list and lookup queries of both tables
NextQueries ==
    \/ \E p \in PatientIds, s \in PaymentStatuses : insertTransaction(p, s)
    \/ \E input \in {None} \cup {Some(i) : i \in MedicineSearchInputs}, fault \in Faults :
           getMedicines(input, fault)
    \/ \E id \in 1..(MaxRows + 1), fault \in Faults : getMedicineById(id, fault)
    \/ \E input \in {None} \cup {Some(i) : i \in TransactionFilterInputs}, fault \in Faults :
           getTransactions(input, fault)
    \/ \E id \in 1..(MaxRows + 1), fault \in Faults : getTransactionById(id, fault)
    \/ settle
    \/ tick

SpecQueries == Init /\ [][NextQueries]_vars

\* search inputs with limit and offset, alone and with a name filter
MedicinePageInputs ==
    [query : {None, Some(<<"a">>)}, low_stock_only : {None}, expired_only : {None},
     limit : {None} \cup {Some(n) : n \in 0..MaxRows},
     offset : {None} \cup {Some(n) : n \in 0..MaxRows}]

\* getMedicines with limit and offset, on any medicines table
NextPaging ==
    \/ \E input \in {Some(i) : i \in MedicinePageInputs}, fault \in Faults :
           getMedicines(input, fault)
    \/ settle
    \/ tick

SpecPaging == Init /\ [][NextPaging]_vars

----------------------------------------------------------------------------
(* Properties *)

\* the ids of the records of a result list
Ids(result) == {result[i].id : i \in 1..Len(result)}

returned(op) == call.op = op /\ call.outcome = "return"

\* a flag that is set asks for the rows with the property; a flag that is
\* absent or false asks for nothing
flagged(flag, property) == (IsSome(flag) /\ Val(flag)) => property

\* the medicines a search input selects: the AND of the predicates of the
\* fields that are present
selectedMedicines(input, today) ==
    {m \in medicinesTable :
        IsSome(input) =>
            /\ IsSome(Val(input).query) =>
                   ilike(m.name, <<"%">> \o Val(Val(input).query) \o <<"%">>)
            /\ flagged(Val(input).low_stock_only, m.stock_quantity <= m.minimum_stock)
            /\ flagged(Val(input).expired_only,
                       IsSome(m.expiry_date) /\ Val(m.expiry_date) <= today)}

\* the transactions a search input selects
selectedTransactions(input) ==
    {t \in transactionsTable :
        IsSome(input) =>
            /\ IsSome(Val(input).patient_id) => t.patient_id = Val(Val(input).patient_id)
            /\ IsSome(Val(input).payment_status) =>
                   t.payment_status = Val(Val(input).payment_status)
            /\ IsSome(Val(input).start_date) => t.created_at >= Val(Val(input).start_date)
            /\ IsSome(Val(input).end_date) => t.created_at <= Val(Val(input).end_date)}

unpaged(input) == IsSome(input) => Val(input).limit = None /\ Val(input).offset = None

\* C1: without limit and offset, getMedicines and getTransactions return exactly
\* the stored records that satisfy every predicate of a filter field that is
\* present, each once; with no filter they return every stored record.
C1_FilterConjunction ==
    /\ (returned("getMedicines") /\ unpaged(call.input)) =>
           /\ Ids(call.result) = {m.id : m \in selectedMedicines(call.input, toISODate(now))}
           /\ Len(call.result) = Cardinality(Ids(call.result))
           /\ (call.input = None => Len(call.result) = Cardinality(medicinesTable))
    /\ (returned("getTransactions") /\ unpaged(call.input)) =>
           /\ Ids(call.result) = {t.id : t \in selectedTransactions(call.input)}
           /\ Len(call.result) = Cardinality(Ids(call.result))
           /\ (call.input = None => Len(call.result) = Cardinality(transactionsTable))

\* a search with two filters that keeps one stored medicine and drops another
C1_Witness ==
    /\ returned("getMedicines")
    /\ IsSome(call.input)
    /\ truthyString(Val(call.input).query)
    /\ truthyBoolean(Val(call.input).low_stock_only)
    /\ Len(call.result) = 1
    /\ \E m \in medicinesTable :
           /\ m.id \notin Ids(call.result)
           /\ m.stock_quantity <= m.minimum_stock

\* C2: when the store does not fail, getMedicineById and getTransactionById
\* return null for an id no stored record has, and the stored record with that
\* id otherwise; they do not throw.
C2_NotFoundIsNull ==
    /\ (call.op = "getMedicineById" /\ call.fault = None) =>
           /\ call.outcome = "return"
           /\ (call.result = None) = (\A m \in medicinesTable : m.id # call.input)
           /\ \A m \in medicinesTable :
                  m.id = call.input =>
                      call.result = Some([m EXCEPT !.expiry_date =
                                             IF m.expiry_date = None THEN None
                                             ELSE Some(Val(m.expiry_date) * UnitsPerDay)])
    /\ (call.op = "getTransactionById" /\ call.fault = None) =>
           /\ call.outcome = "return"
           /\ (call.result = None) = (\A t \in transactionsTable : t.id # call.input)
           /\ \A t \in transactionsTable : t.id = call.input => call.result = Some(t)

\* a lookup of an absent id in a table that holds another medicine
C2_Witness ==
    /\ returned("getMedicineById")
    /\ call.result = None
    /\ medicinesTable # {}

\* a list of transactions is newest first
newestFirst(l) == \A i \in 1..(Len(l) - 1) : l[i].created_at >= l[i + 1].created_at

\* records O+1 .. O+L of a list, fewer when the list ends earlier
isSlice(result, l, lim, off) ==
    LET O == IF IsSome(off) THEN Val(off) ELSE 0
        rest == IF Len(l) > O THEN Len(l) - O ELSE 0
        n == IF IsSome(lim) /\ Val(lim) < rest THEN Val(lim) ELSE rest
    IN  /\ Len(result) = n
        /\ \A i \in 1..n : result[i] = l[O + i]

\* C3: getTransactions with limit L and offset O returns, in order, the records
\* at positions O+1 .. O+L of the filtered list sorted by created_at descending,
\* fewer when the list ends earlier; an unset limit keeps every row, an unset
\* offset skips none.
C3_PageOfNewestFirst ==
    (returned("getTransactions") /\ IsSome(call.input)) =>
        \E l \in Listings(selectedTransactions(call.input)) :
            /\ newestFirst(l)
            /\ isSlice(call.result, l, Val(call.input).limit, Val(call.input).offset)

\* limit 1, offset 1 over two transactions of different age: the older one
C3_Witness ==
    /\ returned("getTransactions")
    /\ IsSome(call.input)
    /\ Val(call.input).limit = Some(1)
    /\ Val(call.input).offset = Some(1)
    /\ Len(call.result) = 1
    /\ \E t \in transactionsTable : t.created_at > call.result[1].created_at

lowStockOnly ==
    Some([query |-> None, low_stock_only |-> Some(TRUE), expired_only |-> None,
          limit |-> None, offset |-> None])

expiredOnly ==
    Some([query |-> None, low_stock_only |-> None, expired_only |-> Some(TRUE),
          limit |-> None, offset |-> None])

\* C4: getLowStockMedicines() and getMedicines({low_stock_only: true}) return a
\* medicine if and only if its stock_quantity is at most its minimum_stock, the
\* boundary included, so both select the same medicines.
C4_LowStockBoundary ==
    (\/ returned("getLowStockMedicines")
     \/ returned("getMedicines") /\ call.input = lowStockOnly) =>
        Ids(call.result) =
            {m.id : m \in {x \in medicinesTable : x.stock_quantity <= x.minimum_stock}}

\* a low-stock list that holds a medicine at its minimum and leaves one above it out
C4_Witness ==
    /\ returned("getLowStockMedicines")
    /\ \E m \in medicinesTable :
           m.stock_quantity = m.minimum_stock /\ m.id \in Ids(call.result)
    /\ \E m \in medicinesTable :
           m.stock_quantity > m.minimum_stock /\ m.id \notin Ids(call.result)

\* C5: getExpiredMedicines() and getMedicines({expired_only: true}) return a
\* medicine if and only if its expiry_date is set and is on or before the
\* current date of the server, whatever the moment of the call.
C5_ExpiredByCurrentDate ==
    (\/ returned("getExpiredMedicines")
     \/ returned("getMedicines") /\ call.input = expiredOnly) =>
        Ids(call.result) =
            {m.id : m \in {x \in medicinesTable :
                             IsSome(x.expiry_date) /\ Val(x.expiry_date) <= localDay(now)}}

\* C6: createPatient stores and returns a date_of_birth on the calendar day of
\* the input date, whatever its time of day and the server's zone: the date it
\* returns, read from the stored YYYY-MM-DD form, shows the day the input shows.
C6_BirthDayPreserved ==
    returned("createPatient") =>
        /\ \E p \in patientsTable :
               p.id = call.result.id /\ newDate(p.date_of_birth) = call.result.date_of_birth
        /\ localDay(call.result.date_of_birth) = localDay(call.input.date_of_birth)

CodeHandlers ==
    {"getMedicines", "getMedicineById", "getLowStockMedicines", "getExpiredMedicines",
     "createPatient"}

\* C7: when the store fails during a handler, the handler logs the error and
\* throws that same error: it returns nothing, asks the store once, and throws
\* no other error.
C7_StorageFailurePropagates ==
    (call.op \in CodeHandlers /\ IsSome(call.fault)) =>
        /\ call.outcome = "throw"
        /\ call.thrown = call.fault
        /\ call.result = <<>>
        /\ call.queries = 1
        /\ Len(call.log) = 1
        /\ call.log[1].error = Val(call.fault)

\* a list query on a table with rows, failed by the store
C7_Witness ==
    /\ call.op = "getMedicines"
    /\ IsSome(call.fault)
    /\ call.outcome = "throw"
    /\ medicinesTable # {}

QueryHandlers ==
    {"getMedicines", "getMedicineById", "getLowStockMedicines", "getExpiredMedicines"}

\* C10: a query handler, successful or failed, leaves every table as it was;
\* createPatient leaves the other tables and every existing patient row as they
\* were, adds exactly one patient row when it succeeds and none when it fails.
C10_Frame ==
    [][/\ call'.op \in QueryHandlers =>
              UNCHANGED <<medicinesTable, patientsTable, transactionsTable>>
       /\ call'.op = "createPatient" =>
              /\ UNCHANGED <<medicinesTable, transactionsTable>>
              /\ patientsTable \subseteq patientsTable'
              /\ Cardinality(patientsTable') =
                     Cardinality(patientsTable) + (IF call'.outcome = "return" THEN 1 ELSE 0)]_vars

\* a patient created beside a stored medicine
C10_Witness ==
    /\ returned("createPatient")
    /\ Cardinality(patientsTable) = 1
    /\ medicinesTable # {}

\* a result list is records O+1 .. O+L of a listing, by id; an absent limit
\* keeps every record, an absent offset skips none
isSliceById(result, l, lim, off) ==
    LET O == IF IsSome(off) THEN Val(off) ELSE 0
        rest == IF Len(l) > O THEN Len(l) - O ELSE 0
        n == IF IsSome(lim) /\ Val(lim) < rest THEN Val(lim) ELSE rest
    IN  /\ Len(result) = n
        /\ \A i \in 1..n : result[i].id = l[O + i].id

\* C11: for every limit L and offset O supplied to getMedicines, 0 included,
\* the result is the slice [O, O+L) of the filtered list in name order: at
\* most L records, the first O skipped, with or without a limit.
C11_PageOfNameOrder ==
    (returned("getMedicines") /\ IsSome(call.input)) =>
        \E l \in Listings(selectedMedicines(call.input, toISODate(now))) :
            /\ \A i \in 1..(Len(l) - 1) : nameCmp(l[i].name, l[i + 1].name) <= 0
            /\ isSliceById(call.result, l, Val(call.input).limit, Val(call.input).offset)

====
